---------------------------- MODULE Spec2Model ----------------------------
(***************************************************************************)
(* A model of the redirect tooling of splunk-show-public:                  *)
(*   .github/scripts/auto_generate_redirects.py  (the reconciler)          *)
(*   .github/scripts/generate_redirects.py       (the plain generator)     *)
(*                                                                         *)
(* Text is a sequence of characters, each character a one-character        *)
(* string.  A few characters outside ASCII are written as their code       *)
(* point ("U+2102") and carry the properties Python gives them.            *)
(***************************************************************************)
EXTENDS Naturals, Sequences, FiniteSets, TLC

(***************************************************************************)
(* Characters as Python's str methods and the re module classify them.     *)
(***************************************************************************)
LowerLetters ==
  << "a","b","c","d","e","f","g","h","i","j","k","l","m",
     "n","o","p","q","r","s","t","u","v","w","x","y","z" >>

UpperLetters ==
  << "A","B","C","D","E","F","G","H","I","J","K","L","M",
     "N","O","P","Q","R","S","T","U","V","W","X","Y","Z" >>

Digit == {"0","1","2","3","4","5","6","7","8","9"}

\* U+2102 (DOUBLE-STRUCK CAPITAL C): category Lu, str.isupper() is True,
\* str.isalnum() is True, and str.lower() leaves it as it is.
UncasedUpper == {"U+2102"}

Letter ==
  {LowerLetters[i] : i \in 1..26} \cup {UpperLetters[i] : i \in 1..26}
    \cup UncasedUpper

\* re: \s, restricted to the whitespace a file name carries
Space == {" "}

\* re: \w on str patterns (alphanumerics and the underscore)
Word == Letter \cup Digit \cup {"_"}

\* the lowercase form of each letter that has one
LowerOf ==
  [ c \in {UpperLetters[i] : i \in 1..26} |->
      LowerLetters[CHOOSE i \in 1..26 : UpperLetters[i] = c] ]

\* str.isupper() of one character
IsUpper(c) == c \in DOMAIN LowerOf \/ c \in UncasedUpper

\* str.isalnum() of one character
IsAlnum(c) == c \in Letter \cup Digit

\* str.lower() of one character
LowerChar(c) == IF c \in DOMAIN LowerOf THEN LowerOf[c] ELSE c

\* str.lower()
Lower(text) == [i \in 1..Len(text) |-> LowerChar(text[i])]

\* ord(c) for the characters whose order the sort of the manifest compares
CodeOrder ==
  << " ", "'", "(", ")", ",", "-", ".", "/",
     "0","1","2","3","4","5","6","7","8","9",
     "A","B","C","D","E","F","G","H","I","J","K","L","M",
     "N","O","P","Q","R","S","T","U","V","W","X","Y","Z", "_",
     "a","b","c","d","e","f","g","h","i","j","k","l","m",
     "n","o","p","q","r","s","t","u","v","w","x","y","z", "U+2102" >>

OrdOf ==
  [ c \in {CodeOrder[i] : i \in 1..Len(CodeOrder)} |->
      CHOOSE i \in 1..Len(CodeOrder) : CodeOrder[i] = c ]

Ord(c) == OrdOf[c]

\* str < str: Python compares strings code point by code point
RECURSIVE StrLess(_, _)
StrLess(a, b) ==
  IF b = <<>> THEN FALSE
  ELSE IF a = <<>> THEN TRUE
  ELSE IF Ord(Head(a)) < Ord(Head(b)) THEN TRUE
  ELSE IF Ord(Head(a)) > Ord(Head(b)) THEN FALSE
  ELSE StrLess(Tail(a), Tail(b))

\* str.strip(chars): drop the leading and trailing characters that are in chars
RECURSIVE LStrip(_, _)
LStrip(text, chars) ==
  IF text # <<>> /\ Head(text) \in chars THEN LStrip(Tail(text), chars) ELSE text

RECURSIVE RStrip(_, _)
RStrip(text, chars) ==
  IF text # <<>> /\ text[Len(text)] \in chars
    THEN RStrip(SubSeq(text, 1, Len(text) - 1), chars)
    ELSE text

Strip(text, chars) == RStrip(LStrip(text, chars), chars)

\* str.replace(old, new) for a one-character old
Replace(text, old, new) ==
  [i \in 1..Len(text) |-> IF text[i] = old THEN new ELSE text[i]]

(***************************************************************************)
(* The re module: a pattern is a tree, matched by backtracking in the      *)
(* order Python tries the alternatives (greedy repeats first, the          *)
(* alternatives of | from left to right).                                  *)
(***************************************************************************)
Set(S)    == [k |-> "set", s |-> S]
NotSet(S) == [k |-> "nset", s |-> S]
Lit(w)    == [k |-> "lit", w |-> w]
Cat(rs)   == [k |-> "cat", rs |-> rs]
Alt(rs)   == [k |-> "alt", rs |-> rs]
Opt(r)    == [k |-> "opt", r |-> r]
Star(r)   == [k |-> "star", r |-> r]
Plus(r)   == [k |-> "plus", r |-> r]
WordEdge  == [k |-> "wb"]

\* flags=re.IGNORECASE: a literal matches in either case
LitAt(w, text, i) ==
  /\ i + Len(w) - 1 <= Len(text)
  /\ \A j \in 1..Len(w) : LowerChar(text[i + j - 1]) = LowerChar(w[j])

\* \b: between a \w character and a non-\w character or an end of the text
AtWordEdge(text, i) ==
  LET before == i > 1 /\ text[i - 1] \in Word
      after  == i <= Len(text) /\ text[i] \in Word
  IN  before # after

\* Match(todo, text, i): the patterns of todo matched one after the other
\* from position i; the position after the match Python finds, 0 for none.
RECURSIVE Match(_, _, _)
RECURSIVE MatchAlt(_, _, _, _)
Match(todo, text, i) ==
  IF Len(todo) = 0 THEN i
  ELSE
    LET r    == Head(todo)
        rest == Tail(todo)
    IN  CASE r.k = "set" ->
               IF i <= Len(text) /\ text[i] \in r.s
                 THEN Match(rest, text, i + 1) ELSE 0
          [] r.k = "nset" ->
               IF i <= Len(text) /\ text[i] \notin r.s
                 THEN Match(rest, text, i + 1) ELSE 0
          [] r.k = "lit" ->
               IF LitAt(r.w, text, i)
                 THEN Match(rest, text, i + Len(r.w)) ELSE 0
          [] r.k = "cat" -> Match(r.rs \o rest, text, i)
          [] r.k = "alt" -> MatchAlt(r.rs, rest, text, i)
          [] r.k = "opt" ->
               LET took == Match(<<r.r>> \o rest, text, i)
               IN  IF took # 0 THEN took ELSE Match(rest, text, i)
          [] r.k = "star" ->
               LET took == Match(<<r.r, r>> \o rest, text, i)
               IN  IF took # 0 THEN took ELSE Match(rest, text, i)
          [] r.k = "plus" -> Match(<<r.r, Star(r.r)>> \o rest, text, i)
          [] r.k = "wb" ->
               IF AtWordEdge(text, i) THEN Match(rest, text, i) ELSE 0

MatchAlt(alts, rest, text, i) ==
  IF Len(alts) = 0 THEN 0
  ELSE
    LET took == Match(<<Head(alts)>> \o rest, text, i)
    IN  IF took # 0 THEN took ELSE MatchAlt(Tail(alts), rest, text, i)

\* re.sub(pattern, repl, text): every match, leftmost first, replaced by
\* repl (none of the patterns used here matches the empty string)
RECURSIVE SubFrom(_, _, _, _)
SubFrom(pattern, repl, text, i) ==
  IF i > Len(text) THEN <<>>
  ELSE
    LET e == Match(<<pattern>>, text, i)
    IN  IF e > i
          THEN repl \o SubFrom(pattern, repl, text, e)
          ELSE <<text[i]>> \o SubFrom(pattern, repl, text, i + 1)

Sub(pattern, repl, text) == SubFrom(pattern, repl, text, 1)

(***************************************************************************)
(* remove_date_patterns                                                    *)
(***************************************************************************)
months_abbr ==
  Alt(<< Lit(<<"J","a","n">>), Lit(<<"F","e","b">>), Lit(<<"M","a","r">>),
         Lit(<<"A","p","r">>), Lit(<<"M","a","y">>), Lit(<<"J","u","n">>),
         Lit(<<"J","u","l">>), Lit(<<"A","u","g">>), Lit(<<"S","e","p">>),
         Lit(<<"O","c","t">>), Lit(<<"N","o","v">>), Lit(<<"D","e","c">>) >>)

months_full ==
  Alt(<< Lit(<<"J","a","n","u","a","r","y">>),
         Lit(<<"F","e","b","r","u","a","r","y">>),
         Lit(<<"M","a","r","c","h">>),
         Lit(<<"A","p","r","i","l">>),
         Lit(<<"M","a","y">>),
         Lit(<<"J","u","n","e">>),
         Lit(<<"J","u","l","y">>),
         Lit(<<"A","u","g","u","s","t">>),
         Lit(<<"S","e","p","t","e","m","b","e","r">>),
         Lit(<<"O","c","t","o","b","e","r">>),
         Lit(<<"N","o","v","e","m","b","e","r">>),
         Lit(<<"D","e","c","e","m","b","e","r">>) >>)

month_pattern == Alt(<<months_abbr, months_full>>)

\* year_pattern is the text  \d{4}|\'\d{2}  and is pasted into the patterns
\* without a group around it, so its "|" splits the whole pattern in two:
\* what stands before \d{4}, and what stands after \'\d{2}.
year_pattern ==
  << Cat(<<Set(Digit), Set(Digit), Set(Digit), Set(Digit)>>),
     Cat(<<Lit(<<"'">>), Set(Digit), Set(Digit)>>) >>

day_pattern ==
  Cat(<< Set(Digit), Opt(Set(Digit)),
         Opt(Alt(<< Lit(<<"s","t">>), Lit(<<"n","d">>),
                    Lit(<<"r","d">>), Lit(<<"t","h">>) >>)) >>)

\* (?:[\s_-]|\s*\(\s*)?
date_lead ==
  Opt(Alt(<< Set(Space \cup {"_", "-"}),
             Cat(<<Star(Set(Space)), Lit(<<"(">>), Star(Set(Space))>>) >>))

\* (?:\s*\))?\b
date_tail == Cat(<<Opt(Cat(<<Star(Set(Space)), Lit(<<")">>)>>)), WordEdge>>)

patterns ==
  << Alt(<< Cat(<<date_lead, month_pattern, Plus(Set(Space)), year_pattern[1]>>),
            Cat(<<year_pattern[2], date_tail>>) >>),
     Cat(<< date_lead, Set(Digit), Set(Digit), Set(Digit), Set(Digit),
            Lit(<<"-">>), Set(Digit), Set(Digit),
            Opt(Cat(<<Lit(<<"-">>), Set(Digit), Set(Digit)>>)), date_tail >>),
     Cat(<< date_lead, Set(Digit), Set(Digit), Set(Digit), Set(Digit),
            Set(Digit), Set(Digit), Set(Digit), Set(Digit), date_tail >>),
     Alt(<< Cat(<< date_lead, day_pattern, Plus(Set(Space)), month_pattern,
                   Plus(Set(Space)), year_pattern[1] >>),
            Cat(<<year_pattern[2], date_tail>>) >>),
     Alt(<< Cat(<< date_lead, month_pattern, Plus(Set(Space)), day_pattern,
                   Opt(Lit(<<",">>)), Plus(Set(Space)), year_pattern[1] >>),
            Cat(<<year_pattern[2], date_tail>>) >>),
     Alt(<< Cat(<<date_lead, year_pattern[1]>>),
            Cat(<<year_pattern[2], date_tail>>) >>) >>

\* for pattern in patterns: text = re.sub(pattern, '', text).strip()
RECURSIVE StripDates(_, _)
StripDates(text, n) ==
  IF n > Len(patterns) THEN text
  ELSE StripDates(Strip(Sub(patterns[n], <<>>, text), Space), n + 1)

remove_date_patterns(text) ==
  LET dated  == StripDates(text, 1)
      joined == Strip(Sub(Plus(Set(Space \cup {"_", "-"})), <<" ">>, dated),
                      {" ", "-", "_"})
      spaced == Strip(Sub(Plus(Set(Space)), <<" ">>, joined), Space)
  IN  Strip(spaced, Space)

(***************************************************************************)
(* os.path.splitext, clean_filename_for_title, slugify                     *)
(***************************************************************************)
\* os.path.splitext(p)[0] for a name without directory separators: the
\* extension starts at the last dot, unless only dots stand before it
splitext_root(p) ==
  LET dots == {i \in 1..Len(p) : p[i] = "."}
      last == CHOOSE i \in dots : \A j \in dots : j <= i
  IN  IF dots # {} /\ (\E j \in 1..(last - 1) : p[j] # ".")
        THEN SubSeq(p, 1, last - 1)
        ELSE p

clean_filename_for_title(filename) ==
  LET name_without_ext == splitext_root(filename)
      undated    == remove_date_patterns(name_without_ext)
      spaced     == Replace(undated, "_", " ")
      hyphenated == Sub(Cat(<<Star(Set(Space)), Lit(<<"-">>), Star(Set(Space))>>),
                        <<" ", "-", " ">>, spaced)
      collapsed  == Sub(Plus(Set(Space)), <<" ">>, hyphenated)
  IN  Strip(collapsed, Space)

slugify_untrimmed(text) ==
  LET lowered == Lower(text)
      kept    == Sub(NotSet(Word \cup Space \cup {"-"}), <<>>, lowered)
  IN  Sub(Plus(Set(Space \cup {"_", "-"})), <<"-">>, kept)

slugify(text) ==
  LET lowered == Lower(text)
      kept    == Sub(NotSet(Word \cup Space \cup {"-"}), <<>>, lowered)
      joined  == Sub(Plus(Set(Space \cup {"_", "-"})), <<"-">>, kept)
  IN  Strip(joined, {"-"})

(***************************************************************************)
(* Configuration, paths and the files of the working tree                  *)
(***************************************************************************)
ROOT_CONTENT_DIRECTORY == <<"p","u","b","l","i","c">>

\* the base URL never changes and is kept as one unit of text
GITHUB_PAGES_BASE_URL == <<"https://splunk.github.io/splunk-show-public/">>

\* Python's None, where a text is expected
None == <<"None">>

Slash == <<"/">>

StartsWith(text, prefix) ==
  Len(text) >= Len(prefix) /\ SubSeq(text, 1, Len(prefix)) = prefix

EndsWith(text, suffix) ==
  Len(text) >= Len(suffix)
    /\ SubSeq(text, Len(text) - Len(suffix) + 1, Len(text)) = suffix

LastSlash(path) ==
  IF \E i \in 1..Len(path) : path[i] = "/"
    THEN CHOOSE i \in 1..Len(path) :
           path[i] = "/" /\ \A j \in (i + 1)..Len(path) : path[j] # "/"
    ELSE 0

\* os.path.basename, os.path.dirname, os.path.join of relative paths
basename(path) == SubSeq(path, LastSlash(path) + 1, Len(path))
dirname(path)  == SubSeq(path, 1, LastSlash(path) - 1)
join(a, b)     == IF a = <<>> THEN b ELSE a \o Slash \o b

\* a path (relative to the repository root) that lies under the content root
UnderContentRoot(path) == StartsWith(path, ROOT_CONTENT_DIRECTORY \o Slash)

\* os.path.relpath(path, full_root_content_path) of such a path
RelToContentRoot(path) ==
  SubSeq(path, Len(ROOT_CONTENT_DIRECTORY) + 2, Len(path))

DotHtml == <<".","h","t","m","l">>

\* the content files the working tree may hold
ContentFiles ==
  { ROOT_CONTENT_DIRECTORY \o <<"/","a",".","p","d","f">>,
    ROOT_CONTENT_DIRECTORY \o <<"/","A",".","p","d","f">>,
    ROOT_CONTENT_DIRECTORY \o <<"/","s","/","b","_","2","0","2","3",".","p","d","f">>,
    ROOT_CONTENT_DIRECTORY \o <<"/","x",".","h","t","m","l">> }

\* what a maintainer may write into redirects.json by hand
ManualValues ==
  [ id                 |-> { <<"m","y">> },
    title              |-> { <<"M","y"," ","T">> },
    redirect_html_path |-> { ROOT_CONTENT_DIRECTORY \o <<"/","m",".","h","t","m","l">> } ]

ShaValues == { <<"sha1">>, <<"sha2">> }

\* a content file as it lies on disk
ContentFile(sha, readable) == [kind |-> "file", sha |-> sha, readable |-> readable]

MaxRuns  == 2
MaxEdits == 1

VARIABLES
  disk,            \* path -> the file there (content files and HTML pages)
  content_root,    \* whether the directory public/ exists
  template_exists, \* whether _redirect_templates/redirect_template.html exists
  redirects_json,  \* redirects.json: [kind: missing | malformed | ok, entries]
  listing,         \* public_file_list.md: [kind: missing | ok, generated, rows]
  clock,           \* datetime.now(), in seconds
  script,          \* the script that runs or ran last: "auto", "generate", "none"
  pc,              \* where the run stands
  existing_redirects_map_by_normalized_target_url,
  new_master_redirects_list,
  discovered_target_urls,
  generated_html_files,
  walk_todo,       \* what os.walk has yet to yield
  entry_idx,       \* the entry the HTML loop is at
  run_start,       \* disk, manifest, listing and clock as the run began
  sha_failed,      \* the files of this run that get_file_git_sha gave up on
  wrote_manifest,  \* whether this run wrote redirects.json
  redirects_config,          \* generate_redirects.py: the manifest as loaded
  updated_redirects_config,  \* generate_redirects.py: the entries handled
  settled,         \* [valid, entries]: the manifest the last complete run of the
                   \* reconciler left; valid while nothing was changed since
  repeat_of,       \* settled, as the run began
  runs,
  edits,
  a_filename,      \* a file name given to clean_filename_for_title
  its_title,       \* clean_filename_for_title(a_filename)
  its_retitle,     \* clean_filename_for_title(its_title)
  a_text,          \* a text given to slugify
  its_slug,        \* slugify(a_text)
  its_reslug       \* slugify(its_slug)

env_vars == <<disk, content_root, template_exists, redirects_json, listing>>
run_vars ==
  << existing_redirects_map_by_normalized_target_url, new_master_redirects_list,
     discovered_target_urls, generated_html_files, walk_todo, entry_idx,
     run_start, sha_failed, wrote_manifest, redirects_config,
     updated_redirects_config, repeat_of >>
tree_vars == <<env_vars, run_vars, clock, script, pc, settled, runs, edits>>
name_vars == <<a_filename, its_title, its_retitle, a_text, its_slug, its_reslug>>
vars == <<tree_vars, name_vars>>

Get(entry, key, default) == IF key \in DOMAIN entry THEN entry[key] ELSE default

Without(f, key) == [k \in DOMAIN f \ {key} |-> f[k]]

With(f, key, value) ==
  [k \in DOMAIN f \cup {key} |-> IF k = key THEN value ELSE f[k]]

Idle == pc \in {"idle", "done", "exit1"}

NoListing == [kind |-> "missing"]

Unsettled == [valid |-> FALSE, entries |-> <<>>]

NoManifest == [kind |-> "missing", entries |-> <<>>]

\* run_start while no run has begun
NoSnapshot ==
  [disk |-> <<>>, redirects_json |-> NoManifest, listing |-> NoListing, clock |-> 0]

(***************************************************************************)
(* The state before the first run: some content files, no manifest, no     *)
(* generated page, the template in place.                                  *)
(***************************************************************************)
NoRunYet ==
  /\ content_root = TRUE
  /\ template_exists = TRUE
  /\ redirects_json = NoManifest
  /\ listing = NoListing
  /\ clock = 0
  /\ script = "none"
  /\ pc = "idle"
  /\ existing_redirects_map_by_normalized_target_url = <<>>
  /\ new_master_redirects_list = <<>>
  /\ discovered_target_urls = {}
  /\ generated_html_files = {}
  /\ walk_todo = <<>>
  /\ entry_idx = 1
  /\ run_start = NoSnapshot
  /\ sha_failed = {}
  /\ wrote_manifest = FALSE
  /\ redirects_config = <<>>
  /\ updated_redirects_config = <<>>
  /\ settled = Unsettled
  /\ repeat_of = Unsettled
  /\ runs = 0
  /\ edits = 0

NoNameYet ==
  /\ its_title = None /\ its_retitle = None
  /\ its_slug = None /\ its_reslug = None

Init ==
  /\ \E present \in SUBSET ContentFiles :
       disk = [p \in present |-> ContentFile(<<"sha1">>, TRUE)]
  /\ NoRunYet
  /\ a_filename = <<>> /\ a_text = <<>>
  /\ NoNameYet

(***************************************************************************)
(* What happens to the working tree between two runs.  No process is there *)
(* then: the names of the last run are gone.                               *)
(***************************************************************************)
Edited ==
  /\ edits' = edits + 1
  /\ settled' = Unsettled
  /\ pc' = "idle"
  /\ existing_redirects_map_by_normalized_target_url' = <<>>
  /\ new_master_redirects_list' = <<>>
  /\ discovered_target_urls' = {}
  /\ generated_html_files' = {}
  /\ walk_todo' = <<>>
  /\ entry_idx' = 1
  /\ run_start' = NoSnapshot
  /\ sha_failed' = {}
  /\ wrote_manifest' = FALSE
  /\ redirects_config' = <<>>
  /\ updated_redirects_config' = <<>>
  /\ repeat_of' = Unsettled
  /\ script' = "none"
  /\ UNCHANGED <<clock, runs, name_vars>>

AddFile ==
  /\ Idle /\ edits < MaxEdits /\ content_root
  /\ \E p \in ContentFiles \ DOMAIN disk :
       disk' = [q \in DOMAIN disk \cup {p} |->
                  IF q = p THEN ContentFile(<<"sha1">>, TRUE) ELSE disk[q]]
  /\ Edited
  /\ UNCHANGED <<content_root, template_exists, redirects_json, listing>>

RemoveFile ==
  /\ Idle /\ edits < MaxEdits
  /\ \E p \in DOMAIN disk :
       /\ disk[p].kind = "file"
       /\ disk' = Without(disk, p)
  /\ Edited
  /\ UNCHANGED <<content_root, template_exists, redirects_json, listing>>

ModifyFile ==
  /\ Idle /\ edits < MaxEdits
  /\ \E p \in DOMAIN disk :
       /\ disk[p].kind = "file"
       /\ \E sha \in ShaValues \ {disk[p].sha} :
            disk' = [disk EXCEPT ![p].sha = sha]
  /\ Edited
  /\ UNCHANGED <<content_root, template_exists, redirects_json, listing>>

\* the file can no longer be read (its permissions, a broken link)
MakeUnreadable ==
  /\ Idle /\ edits < MaxEdits
  /\ \E p \in DOMAIN disk :
       /\ disk[p].kind = "file" /\ disk[p].readable
       /\ disk' = [disk EXCEPT ![p].readable = FALSE]
  /\ Edited
  /\ UNCHANGED <<content_root, template_exists, redirects_json, listing>>

RemoveContentRoot ==
  /\ Idle /\ edits < MaxEdits /\ content_root
  /\ content_root' = FALSE
  /\ disk' = [p \in {q \in DOMAIN disk : ~UnderContentRoot(q)} |-> disk[p]]
  /\ Edited
  /\ UNCHANGED <<template_exists, redirects_json, listing>>

RemoveTemplate ==
  /\ Idle /\ edits < MaxEdits /\ template_exists
  /\ template_exists' = FALSE
  /\ Edited
  /\ UNCHANGED <<disk, content_root, redirects_json, listing>>

RemoveManifest ==
  /\ Idle /\ edits < MaxEdits /\ redirects_json.kind # "missing"
  /\ redirects_json' = NoManifest
  /\ Edited
  /\ UNCHANGED <<disk, content_root, template_exists, listing>>

\* redirects.json is left with text json.load cannot parse
BreakManifest ==
  /\ Idle /\ edits < MaxEdits /\ redirects_json.kind = "ok"
  /\ redirects_json' = [kind |-> "malformed", entries |-> <<>>]
  /\ Edited
  /\ UNCHANGED <<disk, content_root, template_exists, listing>>

\* a maintainer overrides the id, the title or the page of an entry
EditEntry ==
  /\ Idle /\ edits < MaxEdits /\ redirects_json.kind = "ok"
  /\ \E i \in 1..Len(redirects_json.entries) :
     \E key \in DOMAIN ManualValues :
     \E value \in ManualValues[key] :
       /\ Get(redirects_json.entries[i], key, None) # value
       /\ redirects_json' =
            [redirects_json EXCEPT !.entries[i] = With(@, key, value)]
  /\ Edited
  /\ UNCHANGED <<disk, content_root, template_exists, listing>>

\* a maintainer leaves a key out of an entry
DropKey ==
  /\ Idle /\ edits < MaxEdits /\ redirects_json.kind = "ok"
  /\ \E i \in 1..Len(redirects_json.entries) :
     \E key \in {"title", "current_target_file"} :
       /\ key \in DOMAIN redirects_json.entries[i]
       /\ redirects_json' =
            [redirects_json EXCEPT !.entries[i] = Without(@, key)]
  /\ Edited
  /\ UNCHANGED <<disk, content_root, template_exists, listing>>

(***************************************************************************)
(* auto_generate_redirects.py                                              *)
(***************************************************************************)
\* for entry in existing_data: the map keyed by the lower-cased target URL;
\* a later entry replaces an earlier one with the same key
RECURSIVE MapByNormalizedTargetUrl(_, _)
MapByNormalizedTargetUrl(existing_data, n) ==
  IF n = 0 THEN <<>>
  ELSE
    LET before == MapByNormalizedTargetUrl(existing_data, n - 1)
        entry  == existing_data[n]
    IN  IF "current_target_file" \in DOMAIN entry
          THEN With(before, Lower(entry.current_target_file), entry)
          ELSE before

Depth(path) == Cardinality({i \in 1..Len(path) : path[i] = "/"})

\* os.walk, top down: the files of a directory before those of the
\* directories below it.  The files of one directory come in the order the
\* file system lists them in, which is not the program's to choose: by name
\* here, upwards or downwards.
WalkBefore(p, q, downwards) ==
  \/ Depth(p) < Depth(q)
  \/ Depth(p) = Depth(q) /\ (IF downwards THEN StrLess(q, p) ELSE StrLess(p, q))

RECURSIVE InWalkOrder(_, _)
InWalkOrder(paths, downwards) ==
  IF paths = {} THEN <<>>
  ELSE
    LET first == CHOOSE p \in paths :
                   \A q \in paths \ {p} : WalkBefore(p, q, downwards)
    IN  <<first>> \o InWalkOrder(paths \ {first}, downwards)

Walk(tree, downwards) ==
  InWalkOrder({p \in DOMAIN tree : UnderContentRoot(p)}, downwards)

\* sys.exit(1) unless the template can be read and the content root is a
\* directory
startup_unchecked_root(template, root) == template

startup_ok(template, root) == template /\ root

\* a run of auto_generate_redirects.py, up to the walk: redirects.json is
\* read (missing or malformed: an empty map), then the template (missing:
\* exit 1), then the content root is looked for (missing: exit 1).  The run
\* starts in a later second than the run before it.
StartAuto ==
  /\ Idle /\ runs < MaxRuns
  /\ script' = "auto"
  /\ existing_redirects_map_by_normalized_target_url' =
       IF redirects_json.kind = "ok"
         THEN MapByNormalizedTargetUrl(redirects_json.entries,
                                       Len(redirects_json.entries))
         ELSE <<>>
  /\ IF startup_ok(template_exists, content_root)
       THEN /\ \E downwards \in BOOLEAN : walk_todo' = Walk(disk, downwards)
            /\ pc' = IF Walk(disk, FALSE) = <<>> THEN "html" ELSE "scan"
       ELSE /\ walk_todo' = <<>>
            /\ pc' = "exit1"
  /\ new_master_redirects_list' = <<>>
  /\ discovered_target_urls' = {}
  /\ generated_html_files' = {}
  /\ entry_idx' = 1
  /\ run_start' = [disk |-> disk, redirects_json |-> redirects_json,
                   listing |-> listing, clock |-> clock]
  /\ sha_failed' = {}
  /\ wrote_manifest' = FALSE
  /\ redirects_config' = <<>>
  /\ updated_redirects_config' = <<>>
  /\ repeat_of' = settled
  /\ settled' = Unsettled
  /\ runs' = runs + 1
  /\ clock' = clock + 1
  /\ UNCHANGED <<env_vars, edits, name_vars>>

get_file_git_sha_unchecked(tree, path) ==
  IF path \in DOMAIN tree THEN tree[path].sha ELSE None

\* get_file_git_sha: None when the file is not there or cannot be hashed
get_file_git_sha(tree, path) ==
  IF path \in DOMAIN tree /\ tree[path].readable THEN tree[path].sha ELSE None

\* the two tests that make the walk pass over a file
SkippedName(filename) ==
  \/ StartsWith(filename, <<".">>)
  \/ filename \in { <<".","g","i","t","k","e","e","p">>,
                    <<"T","h","u","m","b","s",".","d","b">>,
                    <<"d","e","s","k","t","o","p",".","i","n","i">> }
  \/ EndsWith(Lower(filename), DotHtml)

inferred_id(path) ==
  LET filename     == basename(path)
      id_base_path == join(dirname(RelToContentRoot(path)), splitext_root(filename))
  IN  slugify(id_base_path)

inferred_title(path) == clean_filename_for_title(basename(path))

inferred_redirect_html_path(path) ==
  LET filename                  == basename(path)
      name_without_ext_and_date == remove_date_patterns(splitext_root(filename))
      name_for_slug_path        == Replace(name_without_ext_and_date, "_", " ")
      pdf_dir_relative          == dirname(path)
  IN  join(pdf_dir_relative, slugify(name_for_slug_path) \o DotHtml)

\* what the names of the content files give, worked out once
Inferred ==
  [ path \in ContentFiles |->
      [ id                 |-> inferred_id(path),
        title              |-> inferred_title(path),
        redirect_html_path |-> inferred_redirect_html_path(path) ] ]

target_url_lowered(path) == Lower(GITHUB_PAGES_BASE_URL \o path)

\* current_target_file_url_in_json_actual_casing
target_url(path) == GITHUB_PAGES_BASE_URL \o path

\* the entry the scan builds for a file that matches existing_entry;
\* inferred is what the name of the file gives
MergedEntry(existing_entry, inferred, path, current_file_sha, now) ==
  LET id    == Get(existing_entry, "id", inferred.id)
      title == Get(existing_entry, "title", inferred.title)
      redirect_html_path ==
        Get(existing_entry, "redirect_html_path", inferred.redirect_html_path)
      changed ==
        \/ id # Get(existing_entry, "id", None)
        \/ title # Get(existing_entry, "title", None)
        \/ redirect_html_path # Get(existing_entry, "redirect_html_path", None)
        \/ Lower(target_url(path))
             # Lower(Get(existing_entry, "current_target_file", <<>>))
        \/ current_file_sha # Get(existing_entry, "file_sha", None)
  IN  [ id                  |-> id,
        title               |-> title,
        redirect_html_path  |-> redirect_html_path,
        current_target_file |-> target_url(path),
        last_updated_at     |->
          IF changed THEN now ELSE Get(existing_entry, "last_updated_at", now),
        file_sha            |->
          IF changed THEN current_file_sha
                     ELSE Get(existing_entry, "file_sha", current_file_sha) ]

NewEntry_unhashed(inferred, path, current_file_sha, now) ==
  [ id                  |-> inferred.id,
    title               |-> inferred.title,
    redirect_html_path  |-> inferred.redirect_html_path,
    current_target_file |-> target_url(path),
    last_updated_at     |-> now,
    file_sha            |-> None ]

\* the entry the scan builds for a file no entry matches
NewEntry(inferred, path, current_file_sha, now) ==
  [ id                  |-> inferred.id,
    title               |-> inferred.title,
    redirect_html_path  |-> inferred.redirect_html_path,
    current_target_file |-> target_url(path),
    last_updated_at     |-> now,
    file_sha            |-> current_file_sha ]

\* the entry of one scanned file
entry_data(existing, inferred, path, current_file_sha, now) ==
  IF Lower(target_url(path)) \in DOMAIN existing
    THEN MergedEntry(existing[Lower(target_url(path))], inferred, path,
                     current_file_sha, now)
    ELSE NewEntry(inferred, path, current_file_sha, now)

\* one turn of the loop over os.walk
ScanFile ==
  /\ pc = "scan"
  /\ LET path == Head(walk_todo)
         current_file_sha == get_file_git_sha(disk, path)
     IN  /\ walk_todo' = Tail(walk_todo)
         /\ pc' = IF Tail(walk_todo) = <<>> THEN "html" ELSE "scan"
         /\ IF SkippedName(basename(path))
              THEN UNCHANGED <<discovered_target_urls, sha_failed,
                               new_master_redirects_list>>
              ELSE /\ discovered_target_urls' =
                        discovered_target_urls \cup {target_url(path)}
                   /\ IF current_file_sha = None
                        THEN /\ sha_failed' = sha_failed \cup {path}
                             /\ UNCHANGED new_master_redirects_list
                        ELSE /\ \E inferred \in {Inferred[path]} :
                                  new_master_redirects_list' =
                                    Append(new_master_redirects_list,
                                           entry_data(
                                             existing_redirects_map_by_normalized_target_url,
                                             inferred, path, current_file_sha, clock))
                             /\ UNCHANGED sha_failed
  /\ UNCHANGED <<env_vars, clock, script, settled, runs, edits, name_vars,
                 existing_redirects_map_by_normalized_target_url,
                 generated_html_files, entry_idx, run_start, wrote_manifest,
                 redirects_config, updated_redirects_config, repeat_of>>

(***************************************************************************)
(* The HTML pages, the manifest and the listing                            *)
(***************************************************************************)
\* urllib.parse.quote: the characters it leaves alone whatever "safe" is
AlwaysSafe ==
  ({LowerLetters[i] : i \in 1..26} \cup {UpperLetters[i] : i \in 1..26}
     \cup Digit \cup {"_", ".", "-", "~"})

PercentEncoded ==
  [ c \in {" ", "'", "(", ")", ",", "/", "U+2102"} |->
      CASE c = " " -> "%20"
        [] c = "'" -> "%27"
        [] c = "(" -> "%28"
        [] c = ")" -> "%29"
        [] c = "," -> "%2C"
        [] c = "/" -> "%2F"
        [] c = "U+2102" -> "%E2%84%82" ]

\* urllib.parse.quote(text, safe=safe)
quote(text, safe) ==
  [ i \in 1..Len(text) |->
      IF text[i] \in AlwaysSafe \cup safe THEN text[i] ELSE PercentEncoded[text[i]] ]

\* urlparse, quote(path, safe='/'), urlunparse of a URL under the base URL
\* (no file name of the model holds "?", "#" or ";")
target_url_for_html(raw_current_target_file) ==
  IF StartsWith(raw_current_target_file, GITHUB_PAGES_BASE_URL)
    THEN GITHUB_PAGES_BASE_URL
           \o quote(SubSeq(raw_current_target_file, 2, Len(raw_current_target_file)),
                    {"/"})
    ELSE quote(raw_current_target_file, {"/"})

\* '/'.join(quote(segment, safe='') for segment in path.split('/'))
calculated_public_url(relative_redirect_html_path) ==
  GITHUB_PAGES_BASE_URL \o quote(relative_redirect_html_path, {"/"})

\* template.render(title=..., target_url=..., public_url=...)
rendered_html(title, target, public) ==
  [kind |-> "redirect", title |-> title, target_url |-> target, public_url |-> public]

\* the entry as the HTML loop leaves it
WithPublicUrl(entry, now) ==
  LET public  == calculated_public_url(entry.redirect_html_path)
      stamped == IF Get(entry, "public_url", None) # public
                   THEN With(entry, "last_updated_at", now)
                   ELSE entry
  IN  With(stamped, "public_url", public)

WriteFile(tree, path, content) ==
  [p \in DOMAIN tree \cup {path} |-> IF p = path THEN content ELSE tree[p]]

\* one turn of the loop over new_master_redirects_list
GenerateHtml ==
  /\ pc = "html"
  /\ entry_idx <= Len(new_master_redirects_list)
  /\ LET entry == new_master_redirects_list[entry_idx]
         path  == entry.redirect_html_path
         page  == rendered_html(entry.title,
                                target_url_for_html(entry.current_target_file),
                                calculated_public_url(path))
     IN  /\ new_master_redirects_list' =
              [new_master_redirects_list EXCEPT ![entry_idx] = WithPublicUrl(@, clock)]
         /\ disk' = WriteFile(disk, path, page)
         /\ content_root' = (content_root \/ UnderContentRoot(path))
         /\ generated_html_files' = generated_html_files \cup {path}
  /\ entry_idx' = entry_idx + 1
  /\ UNCHANGED <<template_exists, redirects_json, listing, clock, script, pc,
                 settled, runs, edits, name_vars,
                 existing_redirects_map_by_normalized_target_url,
                 discovered_target_urls, walk_todo, run_start, sha_failed,
                 wrote_manifest, redirects_config, updated_redirects_config,
                 repeat_of>>

old_html_files_of_top_level(tree, generated) ==
  { q \in DOMAIN tree : /\ UnderContentRoot(q)
                        /\ Depth(q) = 1
                        /\ EndsWith(Lower(basename(q)), DotHtml)
                        /\ q \notin generated }

\* the files the cleanup walk removes: the .html files under the content
\* root that this run did not generate
old_html_files(tree, generated) ==
  { q \in DOMAIN tree : /\ UnderContentRoot(q)
                        /\ EndsWith(Lower(basename(q)), DotHtml)
                        /\ q \notin generated }

\* the walk that removes the pages no entry of this run generated
CleanupHtml ==
  /\ pc = "html"
  /\ entry_idx > Len(new_master_redirects_list)
  /\ disk' =
       IF content_root
         THEN [ p \in DOMAIN disk \ old_html_files(disk, generated_html_files)
                  |-> disk[p] ]
         ELSE disk
  /\ pc' = "write_manifest"
  /\ UNCHANGED <<content_root, template_exists, redirects_json, listing, clock,
                 script, settled, runs, edits, run_vars, name_vars>>

\* list.sort(key=lambda x: x.get('id', '').lower()): stable
SortKey(entry) == Lower(Get(entry, "id", <<>>))

RECURSIVE InsertSorted(_, _)
InsertSorted(sorted, entry) ==
  IF sorted = <<>> THEN <<entry>>
  ELSE IF StrLess(SortKey(entry), SortKey(sorted[Len(sorted)]))
    THEN Append(InsertSorted(SubSeq(sorted, 1, Len(sorted) - 1), entry),
                sorted[Len(sorted)])
    ELSE Append(sorted, entry)

RECURSIVE SortedById(_, _)
SortedById(entries, n) ==
  IF n = 0 THEN <<>> ELSE InsertSorted(SortedById(entries, n - 1), entries[n])

\* public_file_list.md: the time it was generated and one table row for each
\* entry (the grouping of the rows into folders is left out)
public_file_list_content(entries, now) ==
  [ kind      |-> "ok",
    generated |-> now,
    rows      |-> { << Get(entries[i], "title", <<"N","/","A">>),
                       Get(entries[i], "public_url", <<"#">>),
                       entries[i].last_updated_at >> : i \in 1..Len(entries) } ]

\* the end of the run: the list is sorted and redirects.json written if its
\* content differs, then public_file_list.md is generated
WriteManifest ==
  /\ pc = "write_manifest"
  /\ LET sorted == SortedById(new_master_redirects_list,
                              Len(new_master_redirects_list))
         new_redirects_json_content == [kind |-> "ok", entries |-> sorted]
     IN  /\ new_master_redirects_list' = sorted
         /\ wrote_manifest' = (new_redirects_json_content # redirects_json)
         /\ redirects_json' = new_redirects_json_content
         /\ listing' = public_file_list_content(sorted, clock)
         /\ settled' = [valid |-> TRUE, entries |-> sorted]
  /\ pc' = "done"
  /\ UNCHANGED <<disk, content_root, template_exists, clock, script,
                 runs, edits, name_vars,
                 existing_redirects_map_by_normalized_target_url,
                 discovered_target_urls, generated_html_files, walk_todo,
                 entry_idx, run_start, sha_failed, redirects_config,
                 updated_redirects_config, repeat_of>>

(***************************************************************************)
(* generate_redirects.py                                                   *)
(***************************************************************************)
config_loaded_or_missing(manifest, template) ==
  manifest.kind # "malformed" /\ template

\* sys.exit(1) unless redirects.json can be loaded and the template read
config_loaded(manifest, template) == manifest.kind = "ok" /\ template

\* a run of generate_redirects.py, up to its loop: redirects.json is loaded
\* (missing or malformed: exit 1), then the template (missing: exit 1)
StartGenerate ==
  /\ Idle /\ runs < MaxRuns
  /\ script' = "generate"
  /\ IF config_loaded(redirects_json, template_exists)
       THEN /\ redirects_config' = redirects_json.entries
            /\ pc' = IF redirects_json.entries = <<>>
                       THEN "g_write_manifest" ELSE "g_entries"
       ELSE /\ redirects_config' = <<>>
            /\ pc' = "exit1"
  /\ existing_redirects_map_by_normalized_target_url' = <<>>
  /\ new_master_redirects_list' = <<>>
  /\ discovered_target_urls' = {}
  /\ generated_html_files' = {}
  /\ walk_todo' = <<>>
  /\ entry_idx' = 1
  /\ run_start' = [disk |-> disk, redirects_json |-> redirects_json,
                   listing |-> listing, clock |-> clock]
  /\ sha_failed' = {}
  /\ wrote_manifest' = FALSE
  /\ updated_redirects_config' = <<>>
  /\ repeat_of' = Unsettled
  /\ settled' = Unsettled
  /\ runs' = runs + 1
  /\ UNCHANGED <<env_vars, clock, edits, name_vars>>

\* one turn of the loop over redirects_config; entry['title'] and the like
\* raise KeyError on an entry without the key, which ends the run
G_Entry ==
  /\ pc = "g_entries"
  /\ LET entry == redirects_config[entry_idx]
     IN  IF {"title", "current_target_file", "redirect_html_path"} \subseteq DOMAIN entry
           THEN LET path   == entry.redirect_html_path
                    public == calculated_public_url(path)
                    page   == rendered_html(entry.title,
                                target_url_for_html(entry.current_target_file),
                                public)
                IN  /\ disk' = WriteFile(disk, path, page)
                    /\ content_root' = (content_root \/ UnderContentRoot(path))
                    /\ updated_redirects_config' =
                         Append(updated_redirects_config,
                                With(entry, "public_url", public))
                    /\ entry_idx' = entry_idx + 1
                    /\ pc' = IF entry_idx = Len(redirects_config)
                               THEN "g_write_manifest" ELSE "g_entries"
           ELSE /\ pc' = "exit1"
                /\ UNCHANGED <<disk, content_root, updated_redirects_config,
                               entry_idx>>
  /\ UNCHANGED <<template_exists, redirects_json, listing, clock, script,
                 settled, runs, edits, name_vars,
                 existing_redirects_map_by_normalized_target_url,
                 new_master_redirects_list, discovered_target_urls,
                 generated_html_files, walk_todo, run_start, sha_failed,
                 wrote_manifest, redirects_config, repeat_of>>

G_WriteManifest ==
  /\ pc = "g_write_manifest"
  /\ redirects_json' = [kind |-> "ok", entries |-> updated_redirects_config]
  /\ wrote_manifest' = TRUE
  /\ pc' = "done"
  /\ UNCHANGED <<disk, content_root, template_exists, listing, clock, script,
                 settled, runs, edits, name_vars,
                 existing_redirects_map_by_normalized_target_url,
                 new_master_redirects_list, discovered_target_urls,
                 generated_html_files, walk_todo, entry_idx, run_start,
                 sha_failed, redirects_config, updated_redirects_config,
                 repeat_of>>

Next == AddFile \/ RemoveFile \/ ModifyFile \/ MakeUnreadable \/ RemoveContentRoot
          \/ RemoveTemplate \/ RemoveManifest \/ BreakManifest \/ EditEntry \/ DropKey
          \/ StartAuto \/ ScanFile \/ GenerateHtml \/ CleanupHtml \/ WriteManifest
          \/ StartGenerate \/ G_Entry \/ G_WriteManifest

Spec == Init /\ [][Next]_vars

(***************************************************************************)
(* The reconciler: claims.  They speak of the state a run ends in, against *)
(* the state it began in (run_start).                                      *)
(***************************************************************************)
Finished == pc = "done" /\ script = "auto"

Previous == run_start.redirects_json.entries

Current == redirects_json.entries

UrlOf(path) == GITHUB_PAGES_BASE_URL \o path

\* the files the walk of this run came to and did not pass over
Scanned ==
  { p \in DOMAIN run_start.disk :
      /\ UnderContentRoot(p)
      /\ ~SkippedName(basename(p)) }

Hashable(p) == run_start.disk[p].readable

\* the entries of the previous manifest whose target URL is that of the file,
\* letter case aside
PreviousFor(p) ==
  { j \in 1..Len(Previous) :
      /\ "current_target_file" \in DOMAIN Previous[j]
      /\ Lower(Previous[j].current_target_file) = Lower(UrlOf(p)) }

\* the entries of the written manifest for the file
CurrentFor(p) ==
  { i \in 1..Len(Current) : Current[i].current_target_file = UrlOf(p) }

IsHtmlUnderRoot(q) ==
  UnderContentRoot(q) /\ EndsWith(Lower(basename(q)), DotHtml)

\* C1: a second run of the reconciler, with nothing changed since the first,
\* leaves redirects.json as it was: the same entries with the same
\* last_updated_at, and the file is not written.  (Stated as the claim has
\* it; the code does not keep to it.)
C1_RerunLeavesManifest ==
  (Finished /\ repeat_of.valid) =>
    /\ Current = repeat_of.entries
    /\ ~wrote_manifest

\* C2: the entry written for a scanned file has the id, the title and the
\* redirect_html_path of every entry of the previous manifest whose target
\* URL is the file's, letter case aside, and the file's URL as scanned for
\* current_target_file.  (Stated as the claim has it; the code does not keep
\* to it.)
C2_ManualFieldsKept ==
  Finished =>
    \A p \in Scanned :
      Hashable(p) /\ PreviousFor(p) # {} =>
        /\ CurrentFor(p) # {}
        /\ \A i \in CurrentFor(p) : \A j \in PreviousFor(p) :
           \A key \in {"id", "title", "redirect_html_path"} :
             key \in DOMAIN Previous[j] => Current[i][key] = Previous[j][key]

\* C3: every entry of the written manifest has the URL of a file this run's
\* scan came to, so an entry of the previous manifest whose file is no longer
\* under the content root is not in the written manifest.
C3_OnlyScannedFilesHaveEntries ==
  Finished =>
    /\ \A i \in 1..Len(Current) :
         \E p \in Scanned : Current[i].current_target_file = UrlOf(p)
    /\ \A j \in 1..Len(Previous) :
         ( /\ "current_target_file" \in DOMAIN Previous[j]
           /\ \A p \in DOMAIN run_start.disk :
                UrlOf(p) # Previous[j].current_target_file )
         => \A i \in 1..Len(Current) :
              Current[i].current_target_file # Previous[j].current_target_file

\* C3 is reached: a run ended whose previous manifest listed a file that was
\* gone, while another file was still there
C3_Reached ==
  /\ Finished
  /\ Current # <<>>
  /\ \E j \in 1..Len(Previous) :
       /\ "current_target_file" \in DOMAIN Previous[j]
       /\ \A p \in DOMAIN run_start.disk :
            UrlOf(p) # Previous[j].current_target_file

\* C4: a scanned file that can be hashed and whose URL no entry of the
\* previous manifest has (letter case aside) has exactly one entry in the
\* written manifest, with the inferred id, title and redirect_html_path, the
\* hash of the file, and the time of this run as last_updated_at.
C4_NewFileGetsOneEntry ==
  Finished =>
    \A p \in Scanned :
      Hashable(p) /\ PreviousFor(p) = {} =>
        /\ Cardinality(CurrentFor(p)) = 1
        /\ \A i \in CurrentFor(p) :
             /\ Current[i].id = Inferred[p].id
             /\ Current[i].title = Inferred[p].title
             /\ Current[i].redirect_html_path = Inferred[p].redirect_html_path
             /\ Current[i].file_sha = run_start.disk[p].sha
             /\ Current[i].last_updated_at = clock
             /\ Current[i].last_updated_at >= run_start.clock

\* C4 is reached: a run ended that found a file the previous manifest, which
\* had entries, did not list
C4_Reached ==
  /\ Finished
  /\ Previous # <<>>
  /\ \E p \in Scanned : Hashable(p) /\ PreviousFor(p) = {} /\ CurrentFor(p) # {}

\* C5: when a run has ended, every .html file under the content root is the
\* redirect page of an entry of the manifest.
C5_OnlyCurrentPagesRemain ==
  Finished =>
    \A q \in DOMAIN disk :
      IsHtmlUnderRoot(q) =>
        \E i \in 1..Len(Current) :
          /\ Current[i].redirect_html_path = q
          /\ disk[q].kind = "redirect"
          /\ disk[q].public_url = Current[i].public_url

\* C5 is reached: a run ended that deleted a page which was under the
\* content root as it began, and left another
C5_Reached ==
  /\ Finished
  /\ \E q \in DOMAIN run_start.disk : IsHtmlUnderRoot(q) /\ q \notin DOMAIN disk
  /\ \E q \in DOMAIN disk : IsHtmlUnderRoot(q)

\* the page the HTML loop renders for an entry of the written manifest
PageOf(entry) ==
  rendered_html(entry.title,
                target_url_for_html(entry.current_target_file),
                entry.public_url)

\* C12: after a successful run every entry of the written manifest has its
\* own redirect page: the file at its redirect_html_path exists and is the
\* template rendered with that entry's title, target URL and public URL.
\* (Stated as the claim has it; the code does not keep to it.)
C12_EveryEntryHasItsPage ==
  Finished =>
    \A i \in 1..Len(Current) :
      /\ Current[i].redirect_html_path \in DOMAIN disk
      /\ disk[Current[i].redirect_html_path] = PageOf(Current[i])

\* C6, as amended: auto_generate_redirects.py takes a missing or malformed
\* redirects.json for an empty one: the run is not ended for it, every file
\* it scans and can hash gets the entry of a new file, and redirects.json is
\* written.  generate_redirects.py ends with exit status 1 and writes nothing.
C6_NoManifestIsEmptyManifest ==
  run_start.redirects_json.kind # "ok" =>
    /\ (script = "auto" /\ template_exists /\ content_root) => pc # "exit1"
    /\ Finished =>
         /\ redirects_json.kind = "ok"
         /\ wrote_manifest
         /\ \A p \in Scanned :
              Hashable(p) =>
                /\ Cardinality(CurrentFor(p)) = 1
                /\ \A i \in CurrentFor(p) :
                     /\ Current[i].id = Inferred[p].id
                     /\ Current[i].title = Inferred[p].title
                     /\ Current[i].redirect_html_path = Inferred[p].redirect_html_path
    /\ script = "generate" =>
         /\ pc = "exit1"
         /\ redirects_json = run_start.redirects_json
         /\ disk = run_start.disk

\* C6 is reached: a run of the reconciler ended that began with a malformed
\* redirects.json and wrote entries
C6_Reached ==
  /\ Finished
  /\ run_start.redirects_json.kind = "malformed"
  /\ Current # <<>>

\* C6 as it was stated: with redirects.json missing or malformed, no run is
\* ended for it, whichever script runs
C6_NoRunEndsForTheManifest ==
  ( /\ script \in {"auto", "generate"}
    /\ run_start.redirects_json.kind # "ok"
    /\ template_exists
    /\ (script = "auto" => content_root) )
  => pc # "exit1"

\* C7: a run that finds no template, and a run of the reconciler that finds
\* no content root, ends with exit status 1, and redirects.json, the files of
\* the tree and public_file_list.md are as they were when it began.
C7_FatalBeforeAnyOutput ==
  ( \/ script = "auto" /\ (~template_exists \/ ~content_root)
    \/ script = "generate" /\ ~template_exists )
  => /\ pc = "exit1"
     /\ redirects_json = run_start.redirects_json
     /\ disk = run_start.disk
     /\ listing = run_start.listing

\* C7 is reached: a run of the reconciler ended with exit status 1 for the
\* missing content root, with a manifest of entries and a listing in place
C7_Reached ==
  /\ pc = "exit1" /\ script = "auto"
  /\ ~content_root /\ template_exists
  /\ redirects_json.kind = "ok" /\ Current # <<>>
  /\ listing # NoListing

\* C8: a scanned file whose hash cannot be computed has no entry in the
\* written manifest; the run goes on, and every other scanned file has its
\* one entry, with the fields the previous manifest and the file alone give.
C8_UnhashableFileIsSkipped ==
  /\ (script = "auto" /\ sha_failed # {}) => pc # "exit1"
  /\ Finished =>
       \A p \in Scanned :
         IF Hashable(p)
           THEN /\ Cardinality(CurrentFor(p)) = 1
                /\ \A i \in CurrentFor(p) :
                     LET expected ==
                           entry_data(
                             existing_redirects_map_by_normalized_target_url,
                             Inferred[p], p, run_start.disk[p].sha, clock)
                     IN  \A key \in {"id", "title", "redirect_html_path",
                                     "current_target_file", "file_sha"} :
                           Current[i][key] = expected[key]
           ELSE CurrentFor(p) = {}

\* C8 is reached: a run ended that could not hash a file the previous
\* manifest listed, and wrote the entry of another file
C8_Reached ==
  /\ Finished
  /\ \E p, q \in Scanned :
       /\ ~Hashable(p) /\ PreviousFor(p) # {}
       /\ Hashable(q) /\ CurrentFor(q) # {}

(***************************************************************************)
(* The two normalisers on their own: a file name is given to               *)
(* clean_filename_for_title, and its title again; a text is given to       *)
(* slugify, and its slug again.                                            *)
(***************************************************************************)
MaxChunks == 4
MaxLen    == 3

\* the pieces the file names are put together from
Chunks ==
  { <<"A","b">>, <<" ">>, <<"-">>, <<"_">>, <<"v","1",".","5">>,
    <<"O","c","t">>, <<"2","0","2","3">>, <<".","p","d","f">> }

RECURSIVE ChunkTexts(_)
ChunkTexts(n) ==
  IF n = 0 THEN { <<>> }
  ELSE LET shorter == ChunkTexts(n - 1)
       IN  shorter \cup { t \o c : t \in shorter, c \in Chunks }

\* the characters the texts are put together from
SlugChars == {"a", "B", "1", " ", "_", "-", ".", "U+2102"}

RECURSIVE CharTexts(_)
CharTexts(n) ==
  IF n = 0 THEN { <<>> }
  ELSE LET shorter == CharTexts(n - 1)
       IN  shorter \cup { Append(t, c) : t \in shorter, c \in SlugChars }

NoTree ==
  /\ disk = <<>>
  /\ NoRunYet

InitNorm ==
  /\ a_filename \in ChunkTexts(MaxChunks)
  /\ a_text = <<>>
  /\ NoNameYet
  /\ NoTree

CleanTitle ==
  /\ its_title = None
  /\ its_title' = clean_filename_for_title(a_filename)
  /\ UNCHANGED <<tree_vars, a_filename, its_retitle, a_text, its_slug, its_reslug>>

CleanTitleAgain ==
  /\ its_title # None /\ its_retitle = None
  /\ its_retitle' = clean_filename_for_title(its_title)
  /\ UNCHANGED <<tree_vars, a_filename, its_title, a_text, its_slug, its_reslug>>

NextNorm == CleanTitle \/ CleanTitleAgain

SpecNorm == InitNorm /\ [][NextNorm]_vars

InitSlug ==
  /\ a_text \in CharTexts(MaxLen)
  /\ a_filename = <<>>
  /\ NoNameYet
  /\ NoTree

Slugify ==
  /\ its_slug = None
  /\ its_slug' = slugify(a_text)
  /\ UNCHANGED <<tree_vars, a_filename, its_title, its_retitle, a_text, its_reslug>>

SlugifyAgain ==
  /\ its_slug # None /\ its_reslug = None
  /\ its_reslug' = slugify(its_slug)
  /\ UNCHANGED <<tree_vars, a_filename, its_title, its_retitle, a_text, its_slug>>

NextSlug == Slugify \/ SlugifyAgain

SpecSlug == InitSlug /\ [][NextSlug]_vars

(***************************************************************************)
(* The normalisers: claims                                                 *)
(***************************************************************************)
\* C9: clean_filename_for_title is idempotent: the title of a title is that
\* title.  (Stated as the claim has it; the code does not keep to it.)
C9_TitleOfTitleIsTitle ==
  its_retitle # None => its_retitle = its_title

\* a file name made of two words joined by a hyphen, with or without a space
\* on either side of the hyphen and with or without an extension
HyphenJoined(name, left, right) ==
  \E before, after \in { <<>>, <<" ">> } :
  \E ext \in { <<>>, <<".","p","d","f">> } :
    name = left \o before \o <<"-">> \o after \o right \o ext

\* C11: the title of a file name without date tokens whose stem is two words
\* joined by a hyphen is the two words joined by " - ".  (Stated as the
\* claim has it; the code does not keep to it.)
C11_HyphenBecomesSeparator ==
  its_title # None =>
    \A left, right \in { <<"A","b">> } :
      HyphenJoined(a_filename, left, right) =>
        its_title = left \o <<" ", "-", " ">> \o right

HasHyphenAt(t, i) == i \in 1..Len(t) /\ t[i] = "-"

NoStrayHyphen(t) ==
  /\ ~HasHyphenAt(t, 1)
  /\ ~HasHyphenAt(t, Len(t))
  /\ \A i \in 1..Len(t) : ~(HasHyphenAt(t, i) /\ HasHyphenAt(t, i + 1))

\* C10, as amended: slugify(slugify(text)) = slugify(text), and slugify(text)
\* is made only of alphanumeric characters and hyphens, holds no letter that
\* lower() would change, and no leading, trailing or doubled hyphen.
C10_SlugIsSettled ==
  /\ its_slug # None =>
       /\ \A i \in 1..Len(its_slug) : IsAlnum(its_slug[i]) \/ its_slug[i] = "-"
       /\ Lower(its_slug) = its_slug
       /\ NoStrayHyphen(its_slug)
  /\ its_reslug # None => its_reslug = its_slug

\* C10 is reached: a text with an upper-case letter, a separator and a
\* character slugify drops has been slugified twice
C10_Reached ==
  /\ its_reslug # None
  /\ \E i, j, k \in 1..Len(a_text) :
       /\ a_text[i] = "B" /\ a_text[j] \in {" ", "_"} /\ a_text[k] = "."
  /\ its_slug # <<>>

\* C10 as it was stated: the same, with "no uppercase letter" for the letters
\* of the slug
C10_NoUppercaseLetter ==
  its_slug # None =>
    /\ \A i \in 1..Len(its_slug) :
         /\ IsAlnum(its_slug[i]) \/ its_slug[i] = "-"
         /\ ~IsUpper(its_slug[i])
    /\ NoStrayHyphen(its_slug)
    /\ (its_reslug # None => its_reslug = its_slug)

=============================================================================
